---- MODULE Spec2Model ----
(***************************************************************************)
(* homescreen-hero: the rotation selection engine (core/rotation.py), the  *)
(* rotation history and simulation ledger (core/db) and the service layer  *)
(* that orchestrates them against the media server (core/service.py).      *)
(*                                                                         *)
(* Python strings that the code parses (MM-DD window bounds, ISO dates)    *)
(* are sequences of one-character strings.  Optional[T] values are         *)
(* sequences of length at most one: << >> is None, <<v>> is v.             *)
(***************************************************************************)
EXTENDS Integers, Sequences, FiniteSets, TLC

VARIABLES
    config,         \* the AppConfig that load_config() returns
    today,          \* what date.today() returns
    in_history,     \* SpecRot: the history context handed to the core
    returned,       \* SpecRot: the calls of the core made so far, with outcome
    records,        \* table rotation_records: featured lists, id = index
    usage,          \* table collection_usage: collection_name -> row
    sims,           \* table pending_simulations: rows, id = index
    plex,           \* media server: collection -> visibility hub
    clock,          \* datetime.utcnow(), as a logical clock
    pc,             \* per request thread: position in its service call
    local,          \* per request thread: the call's local variables
    audit           \* per simulation id: what was created and what apply did

vars == <<config, today, in_history, returned, records, usage, sims, plex,
          clock, pc, local, audit>>

-----------------------------------------------------------------------------
(* Bounds of the model *)

\* rotation ids a history context handed to the core may hold (0..MaxRotId)
MaxRotId == 2
\* values of rotation.max_collections tried: 1..MaxCap
MaxCap == 2

\* rotation records the service is let to write before history is cleared
MaxRecords == 2
\* simulations the service is let to create
MaxSims == 1

Collections == {"X", "Y", "Z"}

Min(a, b) == IF a <= b THEN a ELSE b

Range(s) == {s[i] : i \in DOMAIN s}

-----------------------------------------------------------------------------
(* Strings and dates *)

Digits == <<"0", "1", "2", "3", "4", "5", "6", "7", "8", "9">>

IsDigit(c) == \E i \in DOMAIN Digits : Digits[i] = c

DigitVal(c) == (CHOOSE i \in DOMAIN Digits : Digits[i] = c) - 1

\* value of a non-empty all-digit string
RECURSIVE DigitsVal(_)
DigitsVal(s) ==
    IF Len(s) = 0 THEN 0
    ELSE DigitsVal(SubSeq(s, 1, Len(s) - 1)) * 10 + DigitVal(s[Len(s)])

AllDigits(s) == Len(s) > 0 /\ \A i \in DOMAIN s : IsDigit(s[i])

\* int(s): an optional sign followed by digits; anything else raises
ParseInt(s) ==
    IF AllDigits(s) THEN [ok |-> TRUE, n |-> DigitsVal(s)]
    ELSE IF Len(s) > 1 /\ s[1] \in {"-", "+"} /\ AllDigits(Tail(s))
         THEN [ok |-> TRUE,
               n |-> IF s[1] = "-" THEN 0 - DigitsVal(Tail(s))
                                   ELSE DigitsVal(Tail(s))]
         ELSE [ok |-> FALSE, n |-> 0]

\* value.split("-", 1): the parts around the first "-", or the whole value
SplitDash(value) ==
    IF \E i \in DOMAIN value : value[i] = "-"
    THEN LET i == CHOOSE j \in DOMAIN value :
                      value[j] = "-" /\ \A h \in 1..(j - 1) : value[h] # "-"
         IN  <<SubSeq(value, 1, i - 1), SubSeq(value, i + 1, Len(value))>>
    ELSE <<value>>

\* _parse_month_day: ok = FALSE stands for the ValueError it raises
ParseMonthDay(value) ==
    LET parts == SplitDash(value) IN
    IF Len(parts) # 2 THEN [ok |-> FALSE, month |-> 0, day |-> 0]
    ELSE LET m == ParseInt(parts[1])
             d == ParseInt(parts[2])
         IN  IF ~m.ok \/ ~d.ok THEN [ok |-> FALSE, month |-> 0, day |-> 0]
             ELSE IF ~(1 <= m.n /\ m.n <= 12)
                  THEN [ok |-> FALSE, month |-> 0, day |-> 0]
             ELSE IF ~(1 <= d.n /\ d.n <= 31)
                  THEN [ok |-> FALSE, month |-> 0, day |-> 0]
             ELSE [ok |-> TRUE, month |-> m.n, day |-> d.n]

\* Python's tuple comparison (a1, a2) <= (b1, b2)
TupleLeq(a, b) == a[1] < b[1] \/ (a[1] = b[1] /\ a[2] <= b[2])

\* "mutation" of _is_date_in_range: a window is never taken to wrap the year
IsDateInRangeNoWrap(day, dr) ==
    LET s == ParseMonthDay(dr.start)
        e == ParseMonthDay(dr.end)
        today_tuple == <<day.month, day.day>>
    IN  IF ~s.ok \/ ~e.ok THEN [ok |-> FALSE, value |-> FALSE]
        ELSE [ok |-> TRUE,
              value |-> TupleLeq(<<s.month, s.day>>, today_tuple)
                        /\ TupleLeq(today_tuple, <<e.month, e.day>>)]

\* _is_date_in_range: ok = FALSE when a bound fails to parse
IsDateInRange(day, dr) ==
    LET s == ParseMonthDay(dr.start)
        e == ParseMonthDay(dr.end)
        today_tuple == <<day.month, day.day>>
        start_tuple == <<s.month, s.day>>
        end_tuple == <<e.month, e.day>>
    IN  IF ~s.ok \/ ~e.ok THEN [ok |-> FALSE, value |-> FALSE]
        ELSE IF TupleLeq(start_tuple, end_tuple)
             THEN [ok |-> TRUE,
                   value |-> TupleLeq(start_tuple, today_tuple)
                             /\ TupleLeq(today_tuple, end_tuple)]
             ELSE [ok |-> TRUE,
                   value |-> TupleLeq(start_tuple, today_tuple)
                             \/ TupleLeq(today_tuple, end_tuple)]

\* "mutation" of _group_is_active: enabled is not looked at
GroupIsActiveIgnoringEnabled(group, day) ==
    IF group.date_range = << >> THEN [ok |-> TRUE, value |-> TRUE]
    ELSE IsDateInRange(day, group.date_range[1])

\* _group_is_active
GroupIsActive(group, day) ==
    IF ~group.enabled THEN [ok |-> TRUE, value |-> FALSE]
    ELSE IF group.date_range = << >> THEN [ok |-> TRUE, value |-> TRUE]
    ELSE IsDateInRange(day, group.date_range[1])

-----------------------------------------------------------------------------
(* The gap rule *)

\* "mutation" of _passes_gap_rule: the history is not consulted
PassesGapRuleIgnoringHistory(collection_name, group, max_rotation_id, usage_map) ==
    TRUE

\* "mutation" of _passes_gap_rule: the gap has to exceed min_gap_rotations
PassesGapRuleOffByOne(collection_name, group, max_rotation_id, usage_map) ==
    IF group.min_gap_rotations <= 0 THEN TRUE
    ELSE IF max_rotation_id = 0 THEN TRUE
    ELSE IF collection_name \notin DOMAIN usage_map THEN TRUE
    ELSE IF usage_map[collection_name].last_rotation_id = << >> THEN TRUE
    ELSE max_rotation_id - usage_map[collection_name].last_rotation_id[1]
            > group.min_gap_rotations

\* _passes_gap_rule
PassesGapRule(collection_name, group, max_rotation_id, usage_map) ==
    IF group.min_gap_rotations <= 0 THEN TRUE
    ELSE IF max_rotation_id = 0 THEN TRUE
    ELSE IF collection_name \notin DOMAIN usage_map THEN TRUE
    ELSE IF usage_map[collection_name].last_rotation_id = << >> THEN TRUE
    ELSE LET gap == max_rotation_id
                    - usage_map[collection_name].last_rotation_id[1]
         IN  gap >= group.min_gap_rotations

-----------------------------------------------------------------------------
(* The rotation computation *)

ReasonInactive == "Group disabled or outside date_range"
ReasonGlobalCap == "Global max_collections reached before this group was processed"
ReasonNoAvailableHistory ==
    "No available collections after applying gap rule and duplicates filter"
ReasonNoAvailableDry ==
    "No available collections (all already selected by other groups)"
ReasonQuotaZero == "max_picks for this group or global cap prevented any selection"
ReasonRandomZero == "Randomly chose to pick 0 from this group"

\* [c for c in seq if keep(c)] for the two filters of the loop
RECURSIVE NotIn(_, _)
NotIn(seq, set) ==
    IF Len(seq) = 0 THEN << >>
    ELSE IF Head(seq) \in set THEN NotIn(Tail(seq), set)
         ELSE <<Head(seq)>> \o NotIn(Tail(seq), set)

\* "mutation" of the duplicates filter: names chosen earlier are kept
NotYetSelectedKeepingAll(group, selected_set) == group.collections

\* available = [c for c in group.collections if c not in selected_set]
NotYetSelected(group, selected_set) == NotIn(group.collections, selected_set)

\* available = [c for c in available if _passes_gap_rule(c, group, ...)]
GapFiltered(available, group, max_rotation_id, usage_map) ==
    NotIn(available,
          {c \in Range(available) :
              ~PassesGapRule(c, group, max_rotation_id, usage_map)})

\* "mutation" of max_for_group: max_picks is scaled by the group's weight
MaxForGroupWeighted(group, remaining_global, available) ==
    Min(group.max_picks * group.weight, Min(remaining_global, Len(available)))

\* "mutation" of max_for_group: the global budget is left out of the min()
MaxForGroupNoGlobal(group, remaining_global, available) ==
    Min(group.max_picks, Len(available))

\* max_for_group = min(group.max_picks, remaining_global, len(available))
MaxForGroup(group, remaining_global, available) ==
    Min(group.max_picks, Min(remaining_global, Len(available)))

\* min_for_group = min(group.min_picks, max_for_group)
MinForGroup(group, max_for_group) == Min(group.min_picks, max_for_group)

\* "mutation" of k: the roll starts at 0 instead of min_for_group
PickCountsFromZero(min_for_group, max_for_group) == 0..max_for_group

\* k: fixed when the bounds meet, else rng.randint(min_for_group, max_for_group)
PickCounts(min_for_group, max_for_group) ==
    IF min_for_group = max_for_group THEN {max_for_group}
    ELSE min_for_group..max_for_group

\* rng.sample(available, k): k distinct positions of the list, in any order
Sample(available, k) ==
    {[j \in 1..k |-> available[p[j]]] :
        p \in {q \in [1..k -> DOMAIN available] :
                  \A a, b \in 1..k : a # b => q[a] # q[b]}}

\* the GroupSelectionResult a loop iteration starts with
NewGroupResult(group, is_active) ==
    [group_name |-> group.name,
     active |-> is_active,
     min_picks |-> group.min_picks,
     max_picks |-> group.max_picks,
     available_collections |-> group.collections,
     chosen_collections |-> << >>,
     picked_count |-> 0,
     reason_skipped |-> << >>]

\* the loop's local state before the first group
LoopStart(cfg) ==
    [remaining_global |-> cfg.rotation.max_collections,
     selected |-> << >>,
     selected_set |-> {},
     group_results |-> << >>]

\* "mutation" of the skip branches: the reason is not written
SkippedSilently(st, result, reason) ==
    [st EXCEPT !.group_results = Append(@, result)]

\* group_results.append(result); continue
Skipped(st, result, reason) ==
    [st EXCEPT !.group_results =
        Append(@, [result EXCEPT !.reason_skipped = <<reason>>])]

\* "mutation" of the bookkeeping: the picks go in front of the selection
PickedInFront(st, result, chosen) ==
    [remaining_global |-> st.remaining_global - Len(chosen),
     selected |-> chosen \o st.selected,
     selected_set |-> st.selected_set \cup Range(chosen),
     group_results |->
        Append(st.group_results,
               [result EXCEPT !.chosen_collections = chosen,
                              !.picked_count = Len(chosen)])]

\* "mutation" of the bookkeeping: picked_count is left at 0
PickedUncounted(st, result, chosen) ==
    [remaining_global |-> st.remaining_global - Len(chosen),
     selected |-> st.selected \o chosen,
     selected_set |-> st.selected_set \cup Range(chosen),
     group_results |->
        Append(st.group_results,
               [result EXCEPT !.chosen_collections = chosen])]

\* selected.extend(chosen) ... group_results.append(result)
Picked(st, result, chosen) ==
    [remaining_global |-> st.remaining_global - Len(chosen),
     selected |-> st.selected \o chosen,
     selected_set |-> st.selected_set \cup Range(chosen),
     group_results |->
        Append(st.group_results,
               [result EXCEPT !.chosen_collections = chosen,
                              !.picked_count = Len(chosen)])]

\* "mutation" of the break: the loop goes on after the cap is used up
LoopNeverStops(st) == FALSE

\* if remaining_global <= 0: break
LoopStops(st) == st.remaining_global <= 0

\* the RotationResult built after the loop, as a returned outcome
Returns(cfg, st, day) ==
    [raised |-> "",
     result |-> <<[selected_collections |-> st.selected,
                   groups |-> st.group_results,
                   max_global |-> cfg.rotation.max_collections,
                   remaining_global |-> st.remaining_global,
                   today |-> day]>>]

\* an exception leaving the computation
Raises(exc) == [raised |-> exc, result |-> << >>]

\* run_rotation_with_history, from group i on: the set of possible outcomes
\* over the random choices
RECURSIVE WithHistoryFrom(_, _, _, _, _, _)
WithHistoryFrom(cfg, i, st, max_rotation_id, usage_map, day) ==
    IF i > Len(cfg.groups) THEN {Returns(cfg, st, day)}
    ELSE
    LET group == cfg.groups[i]
        is_active == GroupIsActive(group, day)
        result == NewGroupResult(group, is_active.value)
        available == GapFiltered(NotYetSelected(group, st.selected_set),
                                 group, max_rotation_id, usage_map)
        result2 == [result EXCEPT !.available_collections = available]
        max_for_group == MaxForGroup(group, st.remaining_global, available)
        min_for_group == MinForGroup(group, max_for_group)
        Continue(st2) ==
            WithHistoryFrom(cfg, i + 1, st2, max_rotation_id, usage_map, day)
    IN  IF ~is_active.ok THEN {Raises("ValueError")}
        ELSE IF ~is_active.value
             THEN Continue(Skipped(st, result, ReasonInactive))
        ELSE IF st.remaining_global <= 0
             THEN Continue(Skipped(st, result, ReasonGlobalCap))
        ELSE IF Len(available) = 0
             THEN Continue(Skipped(st, result2, ReasonNoAvailableHistory))
        ELSE IF max_for_group <= 0
             THEN Continue(Skipped(st, result2, ReasonQuotaZero))
        ELSE UNION {
                IF k <= 0
                THEN Continue(Skipped(st, result2, ReasonRandomZero))
                ELSE UNION {
                        LET st2 == Picked(st, result2, chosen) IN
                        IF LoopStops(st2)
                        THEN {Returns(cfg, st2, day)}
                        ELSE Continue(st2)
                        : chosen \in Sample(available, k)}
                : k \in PickCounts(min_for_group, max_for_group)}

\* run_rotation_with_history
RunRotationWithHistory(cfg, max_rotation_id, usage_map, day) ==
    WithHistoryFrom(cfg, 1, LoopStart(cfg), max_rotation_id, usage_map, day)

\* run_rotation_dry, from group i on
RECURSIVE DryFrom(_, _, _, _)
DryFrom(cfg, i, st, day) ==
    IF i > Len(cfg.groups) THEN {Returns(cfg, st, day)}
    ELSE
    LET group == cfg.groups[i]
        is_active == GroupIsActive(group, day)
        result == NewGroupResult(group, is_active.value)
        available == NotYetSelected(group, st.selected_set)
        result2 == [result EXCEPT !.available_collections = available]
        max_for_group == MaxForGroup(group, st.remaining_global, available)
        min_for_group == MinForGroup(group, max_for_group)
        Continue(st2) == DryFrom(cfg, i + 1, st2, day)
    IN  IF ~is_active.ok THEN {Raises("ValueError")}
        ELSE IF ~is_active.value
             THEN Continue(Skipped(st, result, ReasonInactive))
        ELSE IF st.remaining_global <= 0
             THEN Continue(Skipped(st, result, ReasonGlobalCap))
        ELSE IF Len(available) = 0
             THEN Continue(Skipped(st, result2, ReasonNoAvailableDry))
        ELSE IF max_for_group <= 0
             THEN Continue(Skipped(st, result2, ReasonQuotaZero))
        ELSE UNION {
                IF k <= 0
                THEN Continue(Skipped(st, result2, ReasonRandomZero))
                ELSE UNION {
                        LET st2 == Picked(st, result2, chosen) IN
                        IF LoopStops(st2)
                        THEN {Returns(cfg, st2, day)}
                        ELSE Continue(st2)
                        : chosen \in Sample(available, k)}
                : k \in PickCounts(min_for_group, max_for_group)}

\* run_rotation_dry
RunRotationDry(cfg, day) == DryFrom(cfg, 1, LoopStart(cfg), day)

-----------------------------------------------------------------------------
(* Inputs: configurations the schema accepts, dates, history contexts *)

\* CollectionGroupConfig with the schema's defaults
Group(name, collections) ==
    [name |-> name, enabled |-> TRUE, min_picks |-> 0, max_picks |-> 1,
     weight |-> 1, min_gap_rotations |-> 0, visibility_home |-> TRUE,
     visibility_shared |-> FALSE, visibility_recommended |-> FALSE,
     date_range |-> << >>, collections |-> collections]

\* the window 12-20 .. 01-05, which wraps the year
WinterWindow ==
    [start |-> <<"1", "2", "-", "2", "0">>, end |-> <<"0", "1", "-", "0", "5">>]

\* a window whose start has month 13
BadWindow ==
    [start |-> <<"1", "3", "-", "0", "1">>, end |-> <<"0", "1", "-", "0", "5">>]

GroupA == [Group("A", <<"X", "Y">>) EXCEPT !.min_picks = 1]
GroupB == [Group("B", <<"Y", "Z">>) EXCEPT !.min_picks = 1, !.max_picks = 2,
                                           !.min_gap_rotations = 2,
                                           !.visibility_shared = TRUE]
GroupC == [Group("C", <<"Z">>) EXCEPT !.enabled = FALSE, !.min_picks = 1,
                                      !.date_range = <<WinterWindow>>]
GroupD == [Group("D", <<"X", "X">>) EXCEPT !.min_picks = 2, !.max_picks = 2]
GroupM == [Group("M", <<"Z", "Y">>) EXCEPT !.min_picks = 2,
                                           !.min_gap_rotations = 1,
                                           !.visibility_recommended = TRUE]
GroupQ == [Group("Q", <<"Z">>) EXCEPT !.max_picks = 0]
GroupW == [Group("W", <<"Z", "X">>) EXCEPT !.max_picks = 2,
                                           !.date_range = <<WinterWindow>>,
                                           !.visibility_home = FALSE,
                                           !.visibility_recommended = TRUE]
GroupBad == [Group("Bad", <<"Y">>) EXCEPT !.date_range = <<BadWindow>>]

GroupPool == {GroupA, GroupB, GroupC, GroupD, GroupM, GroupQ, GroupW, GroupBad}

\* AppConfig: the part the core and the service read
AppConfig(max_collections, groups) ==
    [rotation |-> [max_collections |-> max_collections], groups |-> groups]

\* the group lists tried: every ordered list of one or two groups of the pool
GroupLists ==
    {<<g>> : g \in GroupPool} \cup {<<g, h>> : g \in GroupPool, h \in GroupPool}

RotConfigs == {AppConfig(n, gs) : n \in 1..MaxCap, gs \in GroupLists}

Date(y, m, d) == [year |-> y, month |-> m, day |-> d]

Dates == {Date(2025, 12, 25), Date(2026, 6, 15)}

\* CollectionUsage rows: last_rotation_id is nullable
UsageRows ==
    [last_rotation_id : {<< >>} \cup {<<n>> : n \in 1..MaxRotId},
     times_used : {1}]

\* the collections that a group of the pool with min_gap_rotations > 0 lists:
\* the usage of any other collection is never read by the gap rule
GapCollections ==
    UNION {Range(g.collections) : g \in {h \in GroupPool : h.min_gap_rotations > 0}}

\* every dict from some of these collections to a usage row
UsageMaps == UNION {[S -> UsageRows] : S \in SUBSET GapCollections}

HistoryContexts == [max_rotation_id : 0..MaxRotId, usage_map : UsageMaps]

-----------------------------------------------------------------------------
(* The service: history, simulation ledger, media server, request threads *)

\* threads that serve requests and run the scheduled job
Threads == {"t1", "t2"}

\* the group lists config.yaml is switched between
SvcConfigs == {AppConfig(1, <<GroupA>>), AppConfig(1, <<GroupM>>)}

Hidden == [home |-> FALSE, shared |-> FALSE, recommended |-> FALSE]

\* no exception
NoError == [raised |-> "", detail |-> "", id |-> 0, status |-> 200]

\* any exception but apply_simulation's ValueErrors: HTTPException(500)
ServerError(exc) == [raised |-> exc, detail |-> exc, id |-> 0, status |-> 500]

\* ValueError(f"Simulation {simulation_id} not found"), answered with 400
SimulationNotFound(simulation_id) ==
    [raised |-> "ValueError", detail |-> "not found", id |-> simulation_id,
     status |-> 400]

\* ValueError(f"Simulation {simulation_id} has already been applied")
SimulationAlreadyApplied(simulation_id) ==
    [raised |-> "ValueError", detail |-> "has already been applied",
     id |-> simulation_id, status |-> 400]

\* the locals of a thread that is in no call
NoLocals ==
    [cfg |-> << >>, dry_run |-> FALSE, simulation_id |-> 0,
     rotation |-> << >>, error |-> NoError]

InitService ==
    /\ records = << >>
    /\ usage = << >>
    /\ sims = << >>
    /\ plex = [c \in Collections |-> Hidden]
    /\ clock = 0
    /\ pc = [t \in Threads |-> "idle"]
    /\ local = [t \in Threads |-> NoLocals]
    /\ audit = << >>

serviceVars == <<records, usage, sims, plex, clock, pc, local, audit>>

-----------------------------------------------------------------------------
(* SpecRot: the core as a pure function of its inputs *)

InitRot ==
    /\ config \in RotConfigs
    /\ today \in Dates
    /\ in_history \in HistoryContexts
    /\ returned = << >>
    /\ InitService

\* a call of run_rotation_with_history on the drawn inputs
CallWithHistory ==
    /\ returned = << >>
    /\ \E o \in RunRotationWithHistory(config, in_history.max_rotation_id,
                                       in_history.usage_map, today) :
          returned' = <<[fn |-> "run_rotation_with_history", outcome |-> o]>>
    /\ UNCHANGED <<config, today, in_history>>
    /\ UNCHANGED serviceVars

\* a call of run_rotation_dry on the drawn inputs
CallDry ==
    /\ returned = << >>
    /\ \E o \in RunRotationDry(config, today) :
          returned' = <<[fn |-> "run_rotation_dry", outcome |-> o]>>
    /\ UNCHANGED <<config, today, in_history>>
    /\ UNCHANGED serviceVars

NextRot == CallWithHistory \/ CallDry

SpecRot == InitRot /\ [][NextRot]_vars

\* the RotationResults returned so far
Results == {c.outcome.result[1] : c \in {d \in Range(returned) : d.outcome.raised = ""}}

\* the RotationResults returned so far by the function fn
ResultsOf(fn) ==
    {c.outcome.result[1] :
        c \in {d \in Range(returned) : d.fn = fn /\ d.outcome.raised = ""}}

\* picks made by the first n group entries of a result
RECURSIVE PickedBefore(_, _)
PickedBefore(r, n) ==
    IF n = 0 THEN 0 ELSE PickedBefore(r, n - 1) + r.groups[n].picked_count

\* names chosen by the group entries before entry i
ChosenBefore(r, i) ==
    UNION {Range(r.groups[j].chosen_collections) : j \in 1..(i - 1)}

-----------------------------------------------------------------------------
(* Properties of the rotation computation, checked under SpecRot *)

\* C1: every RotationResult returned by run_rotation_with_history or
\* run_rotation_dry selects at most rotation.max_collections names.
C1_SelectedWithinCap ==
    \A r \in Results :
        Len(r.selected_collections) <= config.rotation.max_collections

\* C1 witness: both functions fill the cap from groups that together allow
\* more picks than the cap
C1_Witness ==
    \E r \in ResultsOf("run_rotation_with_history") :
        /\ Len(config.groups) = 2
        /\ config.groups[1].max_picks + config.groups[2].max_picks
              > config.rotation.max_collections
        /\ Len(r.groups) = 2
        /\ r.groups[2].picked_count > 0
        /\ Len(r.selected_collections) = config.rotation.max_collections

\* C2: no collection name appears more than once in selected_collections,
\* for every configuration the schema accepts.
C2_NoNameSelectedTwice ==
    \A r \in Results :
        \A i, j \in DOMAIN r.selected_collections :
            i # j => r.selected_collections[i] # r.selected_collections[j]

\* C5: a candidate whose usage record is closer than the group's
\* min_gap_rotations to max_rotation_id is never among the collections
\* run_rotation_with_history chooses from that group.
C5_GapBlockedNeverChosen ==
    \A r \in ResultsOf("run_rotation_with_history") :
        \A i \in DOMAIN r.groups :
            \A c \in Range(config.groups[i].collections) :
                ( /\ config.groups[i].min_gap_rotations > 0
                  /\ in_history.max_rotation_id > 0
                  /\ c \in DOMAIN in_history.usage_map
                  /\ in_history.usage_map[c].last_rotation_id # << >>
                  /\ in_history.max_rotation_id
                       - in_history.usage_map[c].last_rotation_id[1]
                       < config.groups[i].min_gap_rotations )
                => c \notin Range(r.groups[i].chosen_collections)

\* C5 witness: a group with a gap rule chose a collection while another of
\* its candidates was blocked by the rule
C5_Witness ==
    \E r \in ResultsOf("run_rotation_with_history") :
        \E i \in DOMAIN r.groups :
            /\ config.groups[i].min_gap_rotations > 0
            /\ in_history.max_rotation_id > 0
            /\ r.groups[i].picked_count > 0
            /\ \E c \in Range(config.groups[i].collections) :
                  /\ c \in DOMAIN in_history.usage_map
                  /\ in_history.usage_map[c].last_rotation_id # << >>
                  /\ in_history.max_rotation_id
                       - in_history.usage_map[c].last_rotation_id[1]
                       < config.groups[i].min_gap_rotations
                  /\ c \notin ChosenBefore(r, i)

\* quota_max of the group of entry i of a result: min of the group's
\* max_picks, the budget left when the group is reached and the number of
\* its eligible candidates
QuotaMax(r, i, fn) ==
    LET g == config.groups[i]
        eligible ==
            {p \in DOMAIN g.collections :
                /\ g.collections[p] \notin ChosenBefore(r, i)
                /\ \/ fn = "run_rotation_dry"
                   \/ PassesGapRule(g.collections[p], g,
                                    in_history.max_rotation_id,
                                    in_history.usage_map)}
    IN  Min(g.max_picks,
            Min(r.max_global - PickedBefore(r, i - 1), Cardinality(eligible)))

\* C6: for every group with a result entry, picked_count is 0 with a reason
\* present, or lies in [min(min_picks, quota_max), quota_max]; so it never
\* exceeds the group's max_picks.
C6_PickedWithinQuota ==
    \A c \in Range(returned) :
        c.outcome.raised = "" =>
        LET r == c.outcome.result[1] IN
        \A i \in DOMAIN r.groups :
            LET q == QuotaMax(r, i, c.fn)
                e == r.groups[i]
            IN  /\ e.picked_count <= config.groups[i].max_picks
                /\ \/ e.picked_count = 0 /\ e.reason_skipped # << >>
                   \/ /\ Min(config.groups[i].min_picks, q) <= e.picked_count
                      /\ e.picked_count <= q

\* C6 witness: a group whose min_picks exceeds its quota_max picked exactly
\* quota_max, after an earlier group had used part of the budget
C6_Witness ==
    \E c \in Range(returned) :
        /\ c.outcome.raised = ""
        /\ LET r == c.outcome.result[1] IN
           /\ Len(r.groups) = 2
           /\ r.groups[1].picked_count > 0
           /\ r.groups[2].picked_count > 0
           /\ config.groups[2].min_picks > QuotaMax(r, 2, c.fn)
           /\ r.groups[2].picked_count = QuotaMax(r, 2, c.fn)

\* C7: when a group exhausts the global cap the result has remaining_global
\* 0 and every later configured group appears in the result, skipped with
\* the reason "global cap exhausted" (a later group that is inactive is left
\* out of the statement: its reason would be "inactive"); with group A (min_picks = max_picks =
\* 1 over X, Y) first, a cap of 1 and an empty history, exactly one of X, Y
\* is selected.
C7_LaterGroupsSkippedAtCap ==
    \A r \in Results :
        /\ ( /\ config.groups[1] = GroupA
             /\ config.rotation.max_collections = 1
             /\ in_history.max_rotation_id = 0 )
           => /\ Len(r.selected_collections) = 1
              /\ r.selected_collections[1] \in {"X", "Y"}
              /\ r.remaining_global = 0
        /\ \A i \in DOMAIN r.groups :
              ( r.groups[i].picked_count > 0
                /\ PickedBefore(r, i) = r.max_global )
              => /\ r.remaining_global = 0
                 /\ \A j \in (i + 1)..Len(config.groups) :
                       GroupIsActive(config.groups[j], today).value =>
                       /\ j \in DOMAIN r.groups
                       /\ r.groups[j].picked_count = 0
                       /\ r.groups[j].reason_skipped = <<ReasonGlobalCap>>

-----------------------------------------------------------------------------
(* Service helpers: history, visibility, media server, snapshots *)

\* get_rotation_history_context: (max id of rotation_records or 0, usage rows)
GetRotationHistoryContext ==
    [max_rotation_id |-> Len(records), usage_map |-> usage]

\* _update_collection_usage for each name of the featured list, in order
RECURSIVE UpdateCollectionUsage(_, _, _)
UpdateCollectionUsage(rows, featured_list, rotation_id) ==
    IF Len(featured_list) = 0 THEN rows
    ELSE LET name == Head(featured_list)
             row == IF name \in DOMAIN rows
                    THEN [last_rotation_id |-> <<rotation_id>>,
                          times_used |-> rows[name].times_used + 1]
                    ELSE [last_rotation_id |-> <<rotation_id>>,
                          times_used |-> 1]
         IN  UpdateCollectionUsage(
                 [c \in DOMAIN rows \cup {name} |->
                     IF c = name THEN row ELSE rows[c]],
                 Tail(featured_list), rotation_id)

\* record_rotation: the new record's id is one more than the largest id
RecordRotation(featured_collections) ==
    /\ records' = Append(records,
                         [featured_collections |-> featured_collections,
                          success |-> TRUE])
    /\ usage' = UpdateCollectionUsage(usage, featured_collections,
                                      Len(records) + 1)

\* "mutation" of the inner loop: a later group overwrites the triple
RECURSIVE VisibilityOfGroupLastWins(_, _, _)
VisibilityOfGroupLastWins(visibility_map, group, names) ==
    IF Len(names) = 0 THEN visibility_map
    ELSE VisibilityOfGroupLastWins(
             [c \in DOMAIN visibility_map \cup {Head(names)} |->
                 IF c = Head(names)
                 THEN [home |-> group.visibility_home,
                       shared |-> group.visibility_shared,
                       recommended |-> group.visibility_recommended]
                 ELSE visibility_map[c]],
             group, Tail(names))

\* build_collection_visibility_map: the inner loop over one group's names
RECURSIVE VisibilityOfGroup(_, _, _)
VisibilityOfGroup(visibility_map, group, names) ==
    IF Len(names) = 0 THEN visibility_map
    ELSE IF Head(names) \in DOMAIN visibility_map
         THEN VisibilityOfGroup(visibility_map, group, Tail(names))
         ELSE VisibilityOfGroup(
                  [c \in DOMAIN visibility_map \cup {Head(names)} |->
                      IF c = Head(names)
                      THEN [home |-> group.visibility_home,
                            shared |-> group.visibility_shared,
                            recommended |-> group.visibility_recommended]
                      ELSE visibility_map[c]],
                  group, Tail(names))

\* build_collection_visibility_map: the outer loop over the groups
RECURSIVE VisibilityFrom(_, _)
VisibilityFrom(visibility_map, groups) ==
    IF Len(groups) = 0 THEN visibility_map
    ELSE VisibilityFrom(
             VisibilityOfGroup(visibility_map, Head(groups),
                               Head(groups).collections),
             Tail(groups))

\* build_collection_visibility_map
BuildCollectionVisibilityMap(cfg) == VisibilityFrom(<< >>, cfg.groups)

\* get_configured_collection_names
ConfiguredCollectionNames(cfg) ==
    UNION {Range(cfg.groups[i].collections) : i \in DOMAIN cfg.groups}

\* the order sorted() puts the collection names in
SortedNames == <<"X", "Y", "Z">>

\* collection_visibility.get(name, {"home": True, ...})
VisibilityFor(collection_visibility, name) ==
    IF name \in DOMAIN collection_visibility THEN collection_visibility[name]
    ELSE [home |-> TRUE, shared |-> FALSE, recommended |-> FALSE]

\* apply_home_screen_selection: the names it processes
NamesToProcess(cfg) == ConfiguredCollectionNames(cfg) \cup DOMAIN usage

\* apply_home_screen_selection: the list it returns
AppliedNames(cfg, selected) ==
    NotIn(SortedNames,
          {c \in Collections :
              c \notin NamesToProcess(cfg) \/ c \notin Range(selected)})

\* "mutation" of apply_home_screen_selection: dry_run is not looked at
HubsAfterIgnoringDryRun(cfg, selected, collection_visibility, dry_run) ==
    [c \in Collections |->
        IF c \notin NamesToProcess(cfg) THEN plex[c]
        ELSE IF c \in Range(selected)
             THEN VisibilityFor(collection_visibility, c)
             ELSE Hidden]

\* apply_home_screen_selection: the hubs after its updateVisibility calls
HubsAfter(cfg, selected, collection_visibility, dry_run) ==
    [c \in Collections |->
        IF dry_run \/ c \notin NamesToProcess(cfg) THEN plex[c]
        ELSE IF c \in Range(selected)
             THEN VisibilityFor(collection_visibility, c)
             ELSE Hidden]

\* the decimal digit of n at position 10^p, as a character
DigitAt(n, tens) == Digits[((n \div tens) % 10) + 1]

\* date.isoformat(): YYYY-MM-DD
IsoFormat(d) ==
    <<DigitAt(d.year, 1000), DigitAt(d.year, 100), DigitAt(d.year, 10),
      DigitAt(d.year, 1), "-", DigitAt(d.month, 10), DigitAt(d.month, 1), "-",
      DigitAt(d.day, 10), DigitAt(d.day, 1)>>

\* pydantic's parsing of an ISO date string
ParseIsoDate(str) ==
    Date(DigitsVal(SubSeq(str, 1, 4)), DigitsVal(SubSeq(str, 6, 7)),
         DigitsVal(SubSeq(str, 9, 10)))

\* json.loads(rotation_result.json()): lists, ints, bools and None stay
\* what they are, the date becomes its ISO string
JsonSnapshot(rotation_result) ==
    [selected_collections |-> rotation_result.selected_collections,
     groups |-> rotation_result.groups,
     max_global |-> rotation_result.max_global,
     remaining_global |-> rotation_result.remaining_global,
     today |-> IsoFormat(rotation_result.today)]

\* "mutation" of create_simulation: the row is stored as already applied
CreateSimulationApplied(rows, rotation_result) ==
    Append(rows,
           [selected_collections |-> rotation_result.selected_collections,
            rotation_snapshot |-> <<JsonSnapshot(rotation_result)>>,
            applied |-> TRUE,
            applied_at |-> << >>])

\* create_simulation: the row added to pending_simulations; its id is its index
CreateSimulation(rows, rotation_result) ==
    Append(rows,
           [selected_collections |-> rotation_result.selected_collections,
            rotation_snapshot |-> <<JsonSnapshot(rotation_result)>>,
            applied |-> FALSE,
            applied_at |-> << >>])

\* "mutation" of the reconstruction: always the branch without a snapshot
ReconstructFromNamesOnly(sim, day) ==
    [selected_collections |-> sim.selected_collections,
     groups |-> << >>,
     max_global |-> Len(sim.selected_collections),
     remaining_global |-> 0,
     today |-> day]

\* apply_simulation: RotationResult(**sim.rotation_snapshot), or the result
\* rebuilt from the names when the row holds no snapshot
ReconstructRotationResult(sim, day) ==
    IF sim.rotation_snapshot # << >>
    THEN LET snapshot == sim.rotation_snapshot[1] IN
         [selected_collections |-> snapshot.selected_collections,
          groups |-> snapshot.groups,
          max_global |-> snapshot.max_global,
          remaining_global |-> snapshot.remaining_global,
          today |-> ParseIsoDate(snapshot.today)]
    ELSE [selected_collections |-> sim.selected_collections,
          groups |-> << >>,
          max_global |-> Len(sim.selected_collections),
          remaining_global |-> 0,
          today |-> day]

\* "mutation" of the checks: an applied simulation is not refused
PrecheckWithoutApplied(rows, simulation_id) ==
    IF simulation_id \notin DOMAIN rows
    THEN SimulationNotFound(simulation_id)
    ELSE NoError

\* "mutation" of the checks: a missing row is reported as already applied
PrecheckMissingAsApplied(rows, simulation_id) ==
    IF simulation_id \notin DOMAIN rows
    THEN SimulationAlreadyApplied(simulation_id)
    ELSE IF rows[simulation_id].applied
         THEN SimulationAlreadyApplied(simulation_id)
         ELSE NoError

\* apply_simulation: get_simulation_by_id and the two checks on its result
ApplyPrecheck(rows, simulation_id) ==
    IF simulation_id \notin DOMAIN rows
    THEN SimulationNotFound(simulation_id)
    ELSE IF rows[simulation_id].applied
         THEN SimulationAlreadyApplied(simulation_id)
         ELSE NoError

\* threads that will still append a rotation record
Recording == {t \in Threads : pc[t] \in {"run_plex", "run_record",
                                         "apply_check", "apply_plex",
                                         "apply_record"}}

\* threads that will still create a simulation
Creating == {t \in Threads : pc[t] = "sim_create"}

\* the call of thread t returns
Return(t) ==
    /\ pc' = [pc EXCEPT ![t] = "idle"]
    /\ local' = [local EXCEPT ![t] = NoLocals]

\* the call of thread t raises: the exception reaches the router's handler
Raise(t, error) ==
    /\ pc' = [pc EXCEPT ![t] = "raising"]
    /\ local' = [local EXCEPT ![t] = [NoLocals EXCEPT !.error = error]]

-----------------------------------------------------------------------------
(* Service operations, one action per database transaction or server call *)

\* run_rotation_once: get_plex_server raises
RunRotationOnceConnectFails(t, dry_run) ==
    /\ pc[t] = "idle"
    /\ pc' = [pc EXCEPT ![t] = "raising"]
    /\ local' = [local EXCEPT ![t] =
                    [NoLocals EXCEPT !.error = ServerError("PlexError")]]
    /\ UNCHANGED <<config, today, in_history, returned, records, usage, sims,
                   plex, clock, audit>>

\* run_rotation_once up to the selection: load_config, get_plex_server,
\* get_rotation_history_context, run_rotation_with_history
RunRotationOnceSelect(t, dry_run) ==
    /\ pc[t] = "idle"
    /\ Len(records) + Cardinality(Recording) < MaxRecords
    /\ LET ctx == GetRotationHistoryContext IN
       \E o \in RunRotationWithHistory(config, ctx.max_rotation_id,
                                       ctx.usage_map, today) :
          /\ pc' = [pc EXCEPT ![t] =
                       IF o.raised # "" THEN "raising" ELSE "run_plex"]
          /\ local' = [local EXCEPT ![t] =
                          IF o.raised # ""
                          THEN [NoLocals EXCEPT !.error = ServerError(o.raised)]
                          ELSE [NoLocals EXCEPT !.cfg = <<config>>,
                                                !.dry_run = dry_run,
                                                !.rotation = o.result]]
    /\ UNCHANGED <<config, today, in_history, returned, records, usage, sims,
                   plex, clock, audit>>

\* run_rotation_once: build_collection_visibility_map and
\* apply_home_screen_selection(dry_run=dry_run)
RunRotationOnceApply(t) ==
    /\ pc[t] = "run_plex"
    /\ plex' = HubsAfter(local[t].cfg[1],
                         local[t].rotation[1].selected_collections,
                         BuildCollectionVisibilityMap(local[t].cfg[1]),
                         local[t].dry_run)
    /\ pc' = [pc EXCEPT ![t] = "run_record"]
    /\ UNCHANGED <<config, today, in_history, returned, records, usage, sims,
                   clock, local, audit>>

\* run_rotation_once: apply_home_screen_selection raises
RunRotationOnceApplyFails(t) ==
    /\ pc[t] = "run_plex"
    /\ Raise(t, ServerError("PlexError"))
    /\ UNCHANGED <<config, today, in_history, returned, records, usage, sims,
                   plex, clock, audit>>

\* run_rotation_once: record_rotation and return
RunRotationOnceRecord(t) ==
    /\ pc[t] = "run_record"
    /\ RecordRotation(local[t].rotation[1].selected_collections)
    /\ Return(t)
    /\ UNCHANGED <<config, today, in_history, returned, sims, plex, clock,
                   audit>>

\* "mutation" of the selection: the computation marks what it selects as
\* used in the usage rows it was given
SimulateRotationOnceSelectMarking(t) ==
    /\ pc[t] = "idle"
    /\ Len(sims) + Cardinality(Creating) < MaxSims
    /\ LET ctx == GetRotationHistoryContext IN
       \E o \in RunRotationWithHistory(config, ctx.max_rotation_id,
                                       ctx.usage_map, today) :
          /\ o.raised = ""
          /\ pc' = [pc EXCEPT ![t] = "sim_create"]
          /\ local' = [local EXCEPT ![t] =
                          [NoLocals EXCEPT !.cfg = <<config>>,
                                           !.rotation = o.result]]
          /\ usage' = UpdateCollectionUsage(
                          usage, o.result[1].selected_collections,
                          ctx.max_rotation_id + 1)
    /\ UNCHANGED <<config, today, in_history, returned, records, sims,
                   plex, clock, audit>>

\* simulate_rotation_once up to the selection
SimulateRotationOnceSelect(t) ==
    /\ pc[t] = "idle"
    /\ Len(sims) + Cardinality(Creating) < MaxSims
    /\ LET ctx == GetRotationHistoryContext IN
       \E o \in RunRotationWithHistory(config, ctx.max_rotation_id,
                                       ctx.usage_map, today) :
          /\ pc' = [pc EXCEPT ![t] =
                       IF o.raised # "" THEN "raising" ELSE "sim_create"]
          /\ local' = [local EXCEPT ![t] =
                          IF o.raised # ""
                          THEN [NoLocals EXCEPT !.error = ServerError(o.raised)]
                          ELSE [NoLocals EXCEPT !.cfg = <<config>>,
                                                !.rotation = o.result]]
    /\ UNCHANGED <<config, today, in_history, returned, records, usage, sims,
                   plex, clock, audit>>

\* simulate_rotation_once: create_simulation and return
SimulateRotationOnceCreate(t) ==
    /\ pc[t] = "sim_create"
    /\ LET rotation_result == local[t].rotation[1] IN
       /\ sims' = CreateSimulation(sims, rotation_result)
       /\ audit' = Append(audit, [created |-> rotation_result,
                                  plex |-> 0, history |-> 0])
    /\ Return(t)
    /\ UNCHANGED <<config, today, in_history, returned, records, usage, plex,
                   clock>>

\* apply_simulation: load_config and init_db, before the row is read
ApplySimulationStart(t, simulation_id) ==
    /\ pc[t] = "idle"
    /\ \/ Len(records) + Cardinality(Recording) < MaxRecords
       \/ simulation_id \notin DOMAIN sims
       \/ simulation_id \in DOMAIN sims /\ sims[simulation_id].applied
    /\ pc' = [pc EXCEPT ![t] = "apply_check"]
    /\ local' = [local EXCEPT ![t] =
                    [NoLocals EXCEPT !.cfg = <<config>>,
                                     !.simulation_id = simulation_id]]
    /\ UNCHANGED <<config, today, in_history, returned, records, usage, sims,
                   plex, clock, audit>>

\* apply_simulation: get_simulation_by_id, the not-found and already-applied
\* checks, and the reconstruction of the RotationResult
ApplySimulationCheck(t) ==
    /\ pc[t] = "apply_check"
    /\ LET simulation_id == local[t].simulation_id
           refusal == ApplyPrecheck(sims, simulation_id)
       IN  IF refusal.raised # ""
           THEN Raise(t, refusal)
           ELSE /\ pc' = [pc EXCEPT ![t] = "apply_plex"]
                /\ local' = [local EXCEPT ![t].rotation =
                                <<ReconstructRotationResult(
                                      sims[simulation_id], today)>>]
    /\ UNCHANGED <<config, today, in_history, returned, records, usage, sims,
                   plex, clock, audit>>

\* apply_simulation: get_plex_server, build_collection_visibility_map and
\* apply_home_screen_selection(dry_run=False)
ApplySimulationToPlex(t) ==
    /\ pc[t] = "apply_plex"
    /\ plex' = HubsAfter(local[t].cfg[1],
                         local[t].rotation[1].selected_collections,
                         BuildCollectionVisibilityMap(local[t].cfg[1]), FALSE)
    /\ audit' = [audit EXCEPT ![local[t].simulation_id].plex = @ + 1]
    /\ pc' = [pc EXCEPT ![t] = "apply_record"]
    /\ UNCHANGED <<config, today, in_history, returned, records, usage, sims,
                   clock, local>>

\* "mutation" of apply_simulation: the history record is written before the
\* media-server step, which then raises
ApplySimulationToPlexFailsRecorded(t) ==
    /\ pc[t] = "apply_plex"
    /\ RecordRotation(local[t].rotation[1].selected_collections)
    /\ pc' = [pc EXCEPT ![t] = "raising"]
    /\ local' = [local EXCEPT ![t] =
                    [NoLocals EXCEPT !.error = ServerError("PlexError"),
                                     !.simulation_id = local[t].simulation_id]]
    /\ UNCHANGED <<config, today, in_history, returned, sims, plex, clock,
                   audit>>

\* apply_simulation: get_plex_server or apply_home_screen_selection raises
ApplySimulationToPlexFails(t) ==
    /\ pc[t] = "apply_plex"
    /\ pc' = [pc EXCEPT ![t] = "raising"]
    /\ local' = [local EXCEPT ![t] =
                    [NoLocals EXCEPT !.error = ServerError("PlexError"),
                                     !.simulation_id = local[t].simulation_id]]
    /\ UNCHANGED <<config, today, in_history, returned, records, usage, sims,
                   plex, clock, audit>>

\* apply_simulation: record_rotation
ApplySimulationRecord(t) ==
    /\ pc[t] = "apply_record"
    /\ RecordRotation(local[t].rotation[1].selected_collections)
    /\ audit' = [audit EXCEPT ![local[t].simulation_id].history = @ + 1]
    /\ pc' = [pc EXCEPT ![t] = "apply_mark"]
    /\ UNCHANGED <<config, today, in_history, returned, sims, plex, clock,
                   local>>

\* "mutation" of mark_simulation_applied: applied_at is not written
MarkSimulationAppliedUndated(rows, sim_id, now) ==
    IF sim_id \notin DOMAIN rows THEN rows
    ELSE [rows EXCEPT ![sim_id].applied = TRUE]

\* mark_simulation_applied
MarkSimulationApplied(rows, sim_id, now) ==
    IF sim_id \notin DOMAIN rows THEN rows
    ELSE [rows EXCEPT ![sim_id].applied = TRUE, ![sim_id].applied_at = <<now>>]

\* apply_simulation: mark_simulation_applied and return the execution
ApplySimulationMark(t) ==
    /\ pc[t] = "apply_mark"
    /\ sims' = MarkSimulationApplied(sims, local[t].simulation_id, clock)
    /\ clock' = clock + 1
    /\ Return(t)
    /\ UNCHANGED <<config, today, in_history, returned, records, usage, plex,
                   audit>>

\* the router's except clauses turn the exception into an HTTP error
RespondWithError(t) ==
    /\ pc[t] = "raising"
    /\ Return(t)
    /\ UNCHANGED <<config, today, in_history, returned, records, usage, sims,
                   plex, clock, audit>>

\* "mutation" of clear_history: collection_usage is left as it is
ClearHistoryKeepingUsage ==
    /\ Len(records) > 0
    /\ records' = << >>
    /\ UNCHANGED <<config, today, in_history, returned, usage, sims, plex,
                   clock, pc, local, audit>>

\* clear_history: both tables dropped and created again
ClearHistory ==
    /\ Len(records) > 0
    /\ records' = << >>
    /\ usage' = << >>
    /\ UNCHANGED <<config, today, in_history, returned, sims, plex, clock, pc,
                   local, audit>>

\* the configuration file is saved with other groups
SaveConfig ==
    /\ \E cfg \in SvcConfigs \ {config} : config' = cfg
    /\ UNCHANGED <<today, in_history, returned>>
    /\ UNCHANGED serviceVars

\* the simulation ids requests name
SimulationIds == 1..(MaxSims + 1)

Init ==
    /\ config \in SvcConfigs
    /\ today \in Dates
    /\ in_history = [max_rotation_id |-> 0, usage_map |-> << >>]
    /\ returned = << >>
    /\ InitService

\* the steps of the calls served by the threads of T
Calls(T) ==
    \/ \E t \in T, dry_run \in BOOLEAN : RunRotationOnceConnectFails(t, dry_run)
    \/ \E t \in T, dry_run \in BOOLEAN : RunRotationOnceSelect(t, dry_run)
    \/ \E t \in T : RunRotationOnceApply(t)
    \/ \E t \in T : RunRotationOnceApplyFails(t)
    \/ \E t \in T : RunRotationOnceRecord(t)
    \/ \E t \in T : SimulateRotationOnceSelect(t)
    \/ \E t \in T : SimulateRotationOnceCreate(t)
    \/ \E t \in T, id \in SimulationIds : ApplySimulationStart(t, id)
    \/ \E t \in T : ApplySimulationCheck(t)
    \/ \E t \in T : ApplySimulationToPlex(t)
    \/ \E t \in T : ApplySimulationToPlexFails(t)
    \/ \E t \in T : ApplySimulationRecord(t)
    \/ \E t \in T : ApplySimulationMark(t)
    \/ \E t \in T : RespondWithError(t)

\* Spec: one request is served at a time, while the history is cleared and
\* the configuration saved at any moment
Next ==
    \/ Calls({"t1"})
    \/ ClearHistory
    \/ SaveConfig

Spec == Init /\ [][Next]_vars

\* SpecConc: two requests are served at once, as FastAPI's thread pool and
\* the scheduler's thread allow; configuration and history tools are left alone
NextConc == Calls(Threads)

SpecConc == Init /\ [][NextConc]_vars

-----------------------------------------------------------------------------
(* Properties of the simulation ledger and of the service layer *)

\* the stores a failed call must leave alone: pending_simulations,
\* rotation_records, collection_usage and the media server's hubs
Stores == <<sims, records, usage, plex, audit>>

\* thread t takes a step of its call
Steps(t) == pc'[t] # pc[t]

\* C3: for any simulation id and any interleaving of apply_simulation calls
\* on it, at most one call passes the applied check, so the simulation gets
\* at most one media-server update and at most one rotation-history record.
C3_AppliedAtMostOnce ==
    \A id \in DOMAIN audit :
        /\ audit[id].plex <= 1
        /\ audit[id].history <= 1

\* C4: once apply_simulation(id) has succeeded, another apply_simulation(id)
\* raises the "has already been applied" error, and no step of that failed
\* call changes the stored simulations, the rotation history or the media
\* server.
C4_SecondApplyRefused ==
    [][\A t \in Threads :
          LET id == local[t].simulation_id IN
          /\ ( /\ pc[t] = "apply_check"
               /\ Steps(t)
               /\ id \in DOMAIN sims
               /\ sims[id].applied )
             => /\ pc'[t] = "raising"
                /\ local'[t].error = SimulationAlreadyApplied(id)
                /\ local'[t].error # SimulationNotFound(id)
                /\ UNCHANGED Stores
          /\ ( /\ pc[t] = "raising"
               /\ Steps(t)
               /\ local[t].error.detail = "has already been applied" )
             => /\ pc'[t] = "idle"
                /\ UNCHANGED Stores]_vars

\* C4 witness: a simulation that was applied once (one media-server update,
\* one history record, applied_at set) is applied again and the call raises
C4_Witness ==
    \E t \in Threads, id \in DOMAIN sims :
        /\ pc[t] = "raising"
        /\ local[t].error = SimulationAlreadyApplied(id)
        /\ sims[id].applied
        /\ sims[id].applied_at # << >>
        /\ audit[id].plex = 1
        /\ audit[id].history = 1

\* C8: two rotation runs started through the service layer never overlap
\* between get_rotation_history_context and record_rotation: no run reads the
\* history while another run has read it and not yet recorded.
C8_RunsSerialized ==
    \A t, u \in Threads :
        t # u => ~( /\ pc[t] \in {"run_plex", "run_record"}
                    /\ pc[u] \in {"run_plex", "run_record"} )

\* C9: the RotationResult apply_simulation applies, records and returns is
\* the one stored when the simulation was created, whatever happened to the
\* configuration and the history in between.
C9_AppliesStoredResult ==
    \A t \in Threads :
        pc[t] \in {"apply_plex", "apply_record", "apply_mark"} =>
            LET stored == audit[local[t].simulation_id].created IN
            /\ local[t].rotation = <<stored>>
            /\ (pc[t] = "apply_mark" /\ Len(records) > 0) =>
                  records[Len(records)].featured_collections
                      = stored.selected_collections

\* C9 witness: a simulation is being applied whose stored result a new
\* computation on the present configuration and history could not return
C9_Witness ==
    \E t \in Threads :
        /\ pc[t] = "apply_plex"
        /\ Len(records) > 0
        /\ \A o \in RunRotationWithHistory(local[t].cfg[1], Len(records),
                                           usage, today) :
              o.result # <<audit[local[t].simulation_id].created>>

\* C10: apply_simulation on an id with no stored simulation raises the
\* "not found" error, which differs from the already-applied error, and no
\* step of the failed call changes the stored simulations, the rotation
\* history or the media server.
C10_MissingIdRefused ==
    [][\A t \in Threads :
          LET id == local[t].simulation_id IN
          /\ ( /\ pc[t] = "apply_check"
               /\ Steps(t)
               /\ id \notin DOMAIN sims )
             => /\ pc'[t] = "raising"
                /\ local'[t].error = SimulationNotFound(id)
                /\ local'[t].error # SimulationAlreadyApplied(id)
                /\ UNCHANGED Stores
          /\ ( /\ pc[t] = "raising"
               /\ Steps(t)
               /\ local[t].error.detail = "not found" )
             => /\ pc'[t] = "idle"
                /\ UNCHANGED Stores]_vars

\* C10 witness: a call names an id that is not stored while another
\* simulation is, and raises not-found
C10_Witness ==
    \E t \in Threads :
        /\ pc[t] = "raising"
        /\ local[t].error = SimulationNotFound(local[t].error.id)
        /\ local[t].error.id \notin DOMAIN sims
        /\ Len(sims) > 0

\* C11: a simulation is created with applied = false and applied_at unset,
\* applied never goes back to false, and in every state applied is true
\* exactly when applied_at is set.
C11_PendingThenApplied ==
    /\ [](\A id \in DOMAIN sims :
             sims[id].applied <=> sims[id].applied_at # << >>)
    /\ [][/\ \A id \in DOMAIN sims' \ DOMAIN sims :
                ~sims'[id].applied /\ sims'[id].applied_at = << >>
          /\ \A id \in DOMAIN sims :
                sims[id].applied => (id \in DOMAIN sims' /\ sims'[id].applied)]_vars

\* C11 witness: a simulation that was created has been applied and carries
\* its applied_at, while a call on it is refused
C11_Witness ==
    \E id \in DOMAIN sims :
        /\ sims[id].applied
        /\ sims[id].applied_at # << >>
        /\ audit[id].history = 1
        /\ \E t \in Threads : pc[t] = "apply_check" /\ local[t].simulation_id = id

-----------------------------------------------------------------------------
(* Further properties of the rotation computation, checked under SpecRot *)

\* C13: with max_rotation_id = 0 (and any usage_map) run_rotation_dry and
\* run_rotation_with_history give identical RotationResults for the same
\* configuration, date and random choices: whatever one returns, the other
\* can return, reasons included.
C13_DryEqualsHistoryAtZero ==
    in_history.max_rotation_id = 0 =>
        \A c \in Range(returned) :
            /\ c.fn = "run_rotation_dry" =>
                  c.outcome \in RunRotationWithHistory(
                                    config, 0, in_history.usage_map, today)
            /\ c.fn = "run_rotation_with_history" =>
                  c.outcome \in RunRotationDry(config, today)

\* the reasons a group entry may carry; "no eligible candidates" is worded
\* differently by the two functions
ReasonsSkipped ==
    {ReasonInactive, ReasonGlobalCap, ReasonNoAvailableHistory,
     ReasonNoAvailableDry, ReasonQuotaZero, ReasonRandomZero}

\* C14: in every group entry of a RotationResult reason_skipped is set
\* exactly when picked_count is 0, and when set it is one of the five
\* reasons (inactive, global cap, no eligible candidates, quota zero,
\* random roll zero).
C14_ReasonIffNothingPicked ==
    \A r \in Results :
        \A i \in DOMAIN r.groups :
            /\ r.groups[i].reason_skipped # << >> <=> r.groups[i].picked_count = 0
            /\ r.groups[i].reason_skipped # << >> =>
                  r.groups[i].reason_skipped[1] \in ReasonsSkipped

\* C14 witness: one result holds an entry with a reason and an entry with picks
C14_Witness ==
    \E r \in ResultsOf("run_rotation_with_history") :
        /\ Len(r.groups) = 2
        /\ r.groups[1].reason_skipped = <<ReasonRandomZero>>
        /\ r.groups[2].picked_count > 0
        /\ r.groups[2].reason_skipped = << >>

\* the positions of the disabled groups of the configuration
DisabledGroups == {i \in DOMAIN config.groups : ~config.groups[i].enabled}

BadWindowGroups ==
    {i \in DOMAIN config.groups :
        /\ config.groups[i].date_range # << >>
        /\ \/ ~ParseMonthDay(config.groups[i].date_range[1].start).ok
           \/ ~ParseMonthDay(config.groups[i].date_range[1].end).ok}

\* C19: a configuration in which some group has a malformed or out-of-range
\* date-window bound makes the rotation computation raise the parsing error,
\* so that no call on it returns a selection.
C19_BadWindowAlwaysRaises ==
    \A c \in Range(returned) :
        BadWindowGroups # {} =>
            /\ c.outcome.raised = "ValueError"
            /\ c.outcome.result = << >>

\* C20: the groups list of a RotationResult holds one entry per configured
\* group, in configuration order, up to and including the group whose picks
\* brought remaining_global to 0, and none for a later group; when
\* remaining_global never reaches 0 every configured group has its entry.
C20_EntriesUpToTheStop ==
    \A r \in Results :
        LET stops == {i \in DOMAIN r.groups :
                         r.max_global - PickedBefore(r, i) = 0}
        IN  /\ Len(r.groups) <= Len(config.groups)
            /\ \A i \in DOMAIN r.groups :
                  r.groups[i].group_name = config.groups[i].name
            /\ stops # {} <=> r.remaining_global = 0
            /\ IF stops # {}
               THEN stops = {Len(r.groups)}
               ELSE Len(r.groups) = Len(config.groups)

\* C20 witness: the first of two groups used up the cap and the second,
\* though active, has no entry
C20_Witness ==
    \E r \in ResultsOf("run_rotation_with_history") :
        /\ Len(config.groups) = 2
        /\ GroupIsActive(config.groups[2], today).value
        /\ Len(r.groups) = 1
        /\ r.groups[1].picked_count = r.max_global
        /\ r.remaining_global = 0

-----------------------------------------------------------------------------
(* SpecFn: the helper functions of the core applied to drawn inputs *)

\* the largest min_gap_rotations tried
MaxGap == 3
\* the largest rotation id the gap rule is handed
MaxHistId == 7

\* "MM-DD" for a month and a day
MonthDay(m, d) ==
    <<DigitAt(m, 10), DigitAt(m, 1), "-", DigitAt(d, 10), DigitAt(d, 1)>>

\* the (month, day) pairs windows are built from
WindowBounds == {<<1, 1>>, <<1, 5>>, <<6, 15>>, <<12, 20>>, <<12, 25>>, <<12, 31>>}

\* every DateRange over these bounds: plain, wrapping and one-day windows
Windows ==
    {[start |-> MonthDay(a[1], a[2]), end |-> MonthDay(b[1], b[2])] :
        a \in WindowBounds, b \in WindowBounds}

\* groups with and without a window, enabled and disabled
WindowGroups ==
    {[Group("G", <<"Z">>) EXCEPT !.date_range = <<w>>, !.enabled = e] :
        w \in Windows, e \in BOOLEAN}
    \cup {Group("G", <<"Z">>)}

\* the dates the window is matched against
WindowDates ==
    {Date(2026, b[1], b[2]) : b \in WindowBounds}
    \cup {Date(2026, 1, 6), Date(2026, 12, 19), Date(2025, 6, 14)}

\* groups with each min_gap_rotations
GapGroups ==
    {[Group("G", <<"Z">>) EXCEPT !.min_gap_rotations = g] : g \in 0..MaxGap}

\* usage maps with no row for Z, a row without last_rotation_id, or with one
GapUsageMaps ==
    {<< >>}
    \cup {[c \in {"Z"} |-> [last_rotation_id |-> l, times_used |-> 1]] :
             l \in {<< >>} \cup {<<n>> : n \in 1..MaxHistId}}

NoHistory == [max_rotation_id |-> 0, usage_map |-> << >>]

\* inputs of _group_is_active
InitWindow ==
    /\ config \in {AppConfig(1, <<g>>) : g \in WindowGroups}
    /\ today \in WindowDates
    /\ in_history = NoHistory

\* inputs of _passes_gap_rule
InitGap ==
    /\ config \in {AppConfig(1, <<g>>) : g \in GapGroups}
    /\ today = Date(2026, 6, 15)
    /\ in_history \in [max_rotation_id : 0..MaxHistId, usage_map : GapUsageMaps]

\* inputs of build_collection_visibility_map
InitVisibility ==
    /\ config \in {AppConfig(1, gs) : gs \in GroupLists}
    /\ today = Date(2026, 6, 15)
    /\ in_history = NoHistory

InitFn ==
    /\ InitWindow \/ InitGap \/ InitVisibility
    /\ returned = << >>
    /\ InitService

\* a call of _group_is_active on the first group and the date
CallGroupIsActive ==
    /\ returned = << >>
    /\ returned' = <<[fn |-> "_group_is_active",
                      outcome |-> GroupIsActive(config.groups[1], today)]>>
    /\ UNCHANGED <<config, today, in_history>>
    /\ UNCHANGED serviceVars

\* a call of _passes_gap_rule on the first collection of the first group
CallPassesGapRule ==
    /\ returned = << >>
    /\ returned' = <<[fn |-> "_passes_gap_rule",
                      outcome |-> PassesGapRule(
                                      config.groups[1].collections[1],
                                      config.groups[1],
                                      in_history.max_rotation_id,
                                      in_history.usage_map)]>>
    /\ UNCHANGED <<config, today, in_history>>
    /\ UNCHANGED serviceVars

\* a call of build_collection_visibility_map on the configuration
CallBuildCollectionVisibilityMap ==
    /\ returned = << >>
    /\ returned' = <<[fn |-> "build_collection_visibility_map",
                      outcome |-> BuildCollectionVisibilityMap(config)]>>
    /\ UNCHANGED <<config, today, in_history>>
    /\ UNCHANGED serviceVars

NextFn ==
    \/ CallGroupIsActive
    \/ CallPassesGapRule
    \/ CallBuildCollectionVisibilityMap

SpecFn == InitFn /\ [][NextFn]_vars

\* the outcomes of the calls of fn made so far
OutcomesOf(fn) == {c.outcome : c \in {d \in Range(returned) : d.fn = fn}}

-----------------------------------------------------------------------------
(* Properties of the helper functions, checked under SpecFn *)

\* a (month, day) pair as one number, ordered as the pairs are
Ordinal(month, day) == month * 100 + day

\* C16: for an enabled group whose window has valid bounds, the group is
\* active iff start <= today <= end when start <= end, and iff today >= start
\* or today <= end when start > end (12-20..01-05 holds 12-25 and 01-01, not
\* 06-15); an enabled group without a window is always active.
C16_WindowMatching ==
    \A o \in OutcomesOf("_group_is_active") :
        LET group == config.groups[1] IN
        group.enabled =>
            IF group.date_range = << >> THEN o = [ok |-> TRUE, value |-> TRUE]
            ELSE LET s == ParseMonthDay(group.date_range[1].start)
                     e == ParseMonthDay(group.date_range[1].end)
                     S == Ordinal(s.month, s.day)
                     E == Ordinal(e.month, e.day)
                     T == Ordinal(today.month, today.day)
                 IN  /\ (s.ok /\ e.ok) =>
                           /\ o.ok
                           /\ o.value <=> IF S <= E THEN S <= T /\ T <= E
                                          ELSE T >= S \/ T <= E
                     /\ group.date_range[1] = WinterWindow =>
                           /\ T \in {1225, 101} => o.value
                           /\ T = 615 => ~o.value

\* C16 witness: the window 12-20..01-05 was matched against 01-01 and holds it
C16_Witness ==
    /\ config.groups[1].enabled
    /\ config.groups[1].date_range = <<WinterWindow>>
    /\ today.month = 1 /\ today.day = 1
    /\ OutcomesOf("_group_is_active") = {[ok |-> TRUE, value |-> TRUE]}

\* C17: the gap rule answers eligible iff min_gap_rotations <= 0, or
\* max_rotation_id = 0, or the collection has no usage record or one without
\* last_rotation_id, or max_rotation_id - last_rotation_id >= min_gap_rotations
\* (min_gap_rotations 3, last 5, max 7: not eligible); only the global
\* max_rotation_id and the collection's own last_rotation_id enter the gap.
C17_GapRule ==
    \A o \in OutcomesOf("_passes_gap_rule") :
        LET group == config.groups[1]
            name == group.collections[1]
            max_rotation_id == in_history.max_rotation_id
            usage_map == in_history.usage_map
            unused == \/ name \notin DOMAIN usage_map
                      \/ usage_map[name].last_rotation_id = << >>
        IN  /\ o <=> \/ group.min_gap_rotations <= 0
                     \/ max_rotation_id = 0
                     \/ unused
                     \/ max_rotation_id - usage_map[name].last_rotation_id[1]
                            >= group.min_gap_rotations
            /\ ( /\ group.min_gap_rotations = 3
                 /\ max_rotation_id = 7
                 /\ ~unused
                 /\ usage_map[name].last_rotation_id = <<5>> ) => ~o

\* C17 witness: min_gap_rotations 3, last_rotation_id 5, max_rotation_id 7
\* was answered not eligible
C17_Witness ==
    /\ config.groups[1].min_gap_rotations = 3
    /\ in_history.max_rotation_id = 7
    /\ "Z" \in DOMAIN in_history.usage_map
    /\ in_history.usage_map["Z"].last_rotation_id = <<5>>
    /\ OutcomesOf("_passes_gap_rule") = {FALSE}

\* the first group, in configured order, that lists the name
FirstGroupListing(name) ==
    CHOOSE i \in DOMAIN config.groups :
        /\ name \in Range(config.groups[i].collections)
        /\ \A j \in 1..(i - 1) : name \notin Range(config.groups[j].collections)

\* C18: the keys of the map build_collection_visibility_map returns are
\* exactly the names some group lists, and each name has the (home, shared,
\* recommended) triple of the first group listing it.
C18_FirstGroupDecidesVisibility ==
    \A o \in OutcomesOf("build_collection_visibility_map") :
        /\ DOMAIN o = UNION {Range(config.groups[i].collections) :
                                i \in DOMAIN config.groups}
        /\ \A name \in DOMAIN o :
              LET group == config.groups[FirstGroupListing(name)] IN
              o[name] = [home |-> group.visibility_home,
                         shared |-> group.visibility_shared,
                         recommended |-> group.visibility_recommended]

\* C18 witness: two groups with different triples list the same name, and
\* the map holds the first group's triple for it while a collection no group
\* lists is absent
C18_Witness ==
    \E o \in OutcomesOf("build_collection_visibility_map") :
        \E name \in DOMAIN o :
            /\ Len(config.groups) = 2
            /\ name \in Range(config.groups[1].collections)
            /\ name \in Range(config.groups[2].collections)
            /\ config.groups[1].visibility_shared
                  # config.groups[2].visibility_shared
            /\ o[name].shared = config.groups[1].visibility_shared
            /\ DOMAIN o # Collections

-----------------------------------------------------------------------------
(* Shape of the RotationResult, checked under SpecRot *)

\* chosen_collections of the first n group entries, one after the other
RECURSIVE ChosenUpTo(_, _)
ChosenUpTo(r, n) ==
    IF n = 0 THEN << >>
    ELSE ChosenUpTo(r, n - 1) \o r.groups[n].chosen_collections

\* C21: selected_collections is the concatenation, in the order of the
\* groups list, of the group entries' chosen_collections.
C21_SelectedIsConcatenation ==
    \A r \in Results :
        r.selected_collections = ChosenUpTo(r, Len(r.groups))

\* C21 witness: two groups both contributed to the selection
C21_Witness ==
    \E r \in ResultsOf("run_rotation_with_history") :
        /\ Len(r.groups) = 2
        /\ r.groups[1].picked_count > 0
        /\ r.groups[2].picked_count > 0
        /\ r.groups[1].chosen_collections # r.groups[2].chosen_collections

\* C29: remaining_global = max_global - len(selected_collections), it lies
\* in 0..max_global, and len(selected_collections) is the sum of the
\* entries' picked_count.
C29_CapAccounting ==
    \A r \in Results :
        /\ r.remaining_global = r.max_global - Len(r.selected_collections)
        /\ 0 <= r.remaining_global
        /\ r.remaining_global <= r.max_global
        /\ Len(r.selected_collections) = PickedBefore(r, Len(r.groups))

\* C29 witness: part of the cap was used and part was left
C29_Witness ==
    \E r \in Results :
        /\ r.max_global = 2
        /\ r.remaining_global = 1
        /\ Len(r.groups) = 2
        /\ Len(r.selected_collections) = 1

\* C30: in the entry of an active group that reached the filters,
\* available_collections holds exactly the configured names not chosen by an
\* earlier group that pass the gap rule, chosen_collections holds only
\* available names, and picked_count is len(chosen_collections).
C30_AvailableAndChosen ==
    \A r \in ResultsOf("run_rotation_with_history") :
        \A i \in DOMAIN r.groups :
            r.groups[i].active =>
                LET group == config.groups[i]
                    eligible ==
                        {c \in Range(group.collections) :
                            /\ c \notin ChosenBefore(r, i)
                            /\ PassesGapRule(c, group,
                                             in_history.max_rotation_id,
                                             in_history.usage_map)}
                IN  /\ Range(r.groups[i].available_collections) = eligible
                    /\ Range(r.groups[i].chosen_collections) \subseteq eligible
                    /\ r.groups[i].picked_count
                          = Len(r.groups[i].chosen_collections)

\* C30 witness: the gap rule removed a candidate of the first group, the
\* duplicates filter removed a candidate of the second, and both groups
\* chose from what was left
C30_Witness ==
    \E r \in ResultsOf("run_rotation_with_history") :
        /\ Len(r.groups) = 2
        /\ r.groups[1].picked_count > 0
        /\ \E c \in Range(config.groups[1].collections) :
              c \notin Range(r.groups[1].available_collections)
        /\ r.groups[2].picked_count > 0
        /\ \E c \in Range(config.groups[2].collections) :
              c \in ChosenBefore(r, 2)

\* C24: every group entry with fewer picks than the group's max_picks,
\* zero included, carries a reason, and picking fewer than the maximum never
\* shows as a raised error.
C24_FewerThanMaxHasReason ==
    \A c \in Range(returned) :
        /\ BadWindowGroups = {} => c.outcome.raised = ""
        /\ c.outcome.raised = "" =>
              \A i \in DOMAIN c.outcome.result[1].groups :
                  LET entry == c.outcome.result[1].groups[i] IN
                  entry.picked_count < entry.max_picks =>
                      entry.reason_skipped # << >>

\* the largest group weight tried
MaxWeight == 2

\* the configuration with weight k given to every group but those of same
Reweighted(cfg, k, same) ==
    [cfg EXCEPT !.groups =
        [i \in DOMAIN cfg.groups |->
            IF i \in same THEN cfg.groups[i]
            ELSE [cfg.groups[i] EXCEPT !.weight = k]]]

\* C25: configurations that differ only in the weights of their groups have
\* the same set of possible RotationResults for the same history and date.
C25_WeightIsNotConsumed ==
    \A c \in Range(returned) :
        \A k \in 2..MaxWeight, same \in {{}, {1}} :
            IF c.fn = "run_rotation_with_history"
            THEN RunRotationWithHistory(Reweighted(config, k, same),
                                        in_history.max_rotation_id,
                                        in_history.usage_map, today)
                    = RunRotationWithHistory(config,
                                             in_history.max_rotation_id,
                                             in_history.usage_map, today)
            ELSE RunRotationDry(Reweighted(config, k, same), today)
                    = RunRotationDry(config, today)

\* C25 witness: a group that lists more collections than its max_picks
\* picked max_picks of them, where a weight that scaled the quota would show
C25_Witness ==
    \E r \in Results :
        /\ r.max_global = 2
        /\ Len(config.groups[1].collections) > config.groups[1].max_picks
        /\ r.groups[1].picked_count = config.groups[1].max_picks
        /\ r.remaining_global > 0


-----------------------------------------------------------------------------
(* Effects of the service calls on history and media server, checked under
   Spec *)

\* C22: run_rotation_once with dry_run=True sends no visibility update to the
\* media server yet appends exactly one rotation record (max_rotation_id grows
\* by one, the usage of every selected collection is updated); with
\* dry_run=False it updates the media server and appends exactly one record.
C22_DryRunStillRecords ==
    [][\A t \in Threads :
          LET cfg == local[t].cfg[1]
              selected == local[t].rotation[1].selected_collections
          IN
          /\ (pc[t] = "run_plex" /\ pc'[t] = "run_record")
             => /\ UNCHANGED <<records, usage>>
                /\ local[t].dry_run => plex' = plex
                /\ ~local[t].dry_run =>
                      \A c \in NamesToProcess(cfg) :
                         plex'[c] = IF c \in Range(selected)
                                    THEN VisibilityFor(
                                            BuildCollectionVisibilityMap(cfg), c)
                                    ELSE Hidden
          /\ (pc[t] = "run_record" /\ Steps(t))
             => /\ plex' = plex
                /\ Len(records') = Len(records) + 1
                /\ \A i \in DOMAIN records : records'[i] = records[i]
                /\ records'[Len(records')].featured_collections = selected
                /\ \A c \in Range(selected) :
                      /\ c \in DOMAIN usage'
                      /\ usage'[c].last_rotation_id = <<Len(records')>>
                      /\ usage'[c].times_used =
                            IF c \in DOMAIN usage
                            THEN usage[c].times_used + 1 ELSE 1
                /\ \A c \in DOMAIN usage' \ Range(selected) :
                      c \in DOMAIN usage /\ usage'[c] = usage[c]]_vars

\* C22 witness: the only record features a collection while the media server
\* shows none and no simulation exists: a dry run has recorded its selection
C22_Witness ==
    /\ \A t \in Threads : pc[t] = "idle"
    /\ sims = << >>
    /\ Len(records) = 1
    /\ records[1].featured_collections # << >>
    /\ \A c \in Range(records[1].featured_collections) :
          c \in DOMAIN usage /\ usage[c].last_rotation_id = <<1>>
    /\ \A c \in Collections : plex[c] = Hidden

C27_NothingWrittenWhenPlexFails ==
    [][\A t \in Threads :
          /\ (pc[t] \in {"idle", "run_plex", "apply_plex"}
                /\ pc'[t] = "raising"
                /\ local'[t].error = ServerError("PlexError"))
             => UNCHANGED <<records, usage, sims>>
          /\ (pc[t] = "raising" /\ Steps(t))
             => UNCHANGED <<records, usage, sims>>
          /\ (Steps(t) /\ Len(records') > Len(records))
             => pc[t] \in {"run_record", "apply_record"}
          /\ (Steps(t) /\ pc'[t] = "run_record") => pc[t] = "run_plex"
          /\ (Steps(t) /\ pc'[t] = "apply_record") => pc[t] = "apply_plex"
          /\ (Steps(t) /\ \E id \in DOMAIN sims :
                             ~sims[id].applied /\ sims'[id].applied)
             => pc[t] = "apply_mark"
          /\ (Steps(t) /\ pc'[t] = "apply_mark") => pc[t] = "apply_record"]_vars

\* C27 witness: the media-server step of apply_simulation has raised; the
\* simulation is pending and no record was written for it
C27_Witness ==
    \E t \in Threads :
        /\ pc[t] = "raising"
        /\ local[t].error = ServerError("PlexError")
        /\ local[t].simulation_id \in DOMAIN sims
        /\ ~sims[local[t].simulation_id].applied
        /\ audit[local[t].simulation_id].history = 0
        /\ records = << >>

\* C28: after any sequence of record_rotation and clear_history operations,
\* every usage row's last_rotation_id is the id of the most recent rotation
\* record whose featured list contains the collection, so it is never greater
\* than the max_rotation_id of get_rotation_history_context and the gap of the
\* gap rule is never negative.
C28_UsageFollowsRecords ==
    \A c \in DOMAIN usage :
        LET ids == {i \in DOMAIN records :
                       c \in Range(records[i].featured_collections)}
            gap == GetRotationHistoryContext.max_rotation_id
                      - usage[c].last_rotation_id[1]
        IN  /\ ids # {}
            /\ usage[c].last_rotation_id
                  = <<CHOOSE i \in ids : \A j \in ids : j <= i>>
            /\ gap >= 0

\* C28 witness: the record of an applied simulation is gone and the history
\* holds one later record with its usage rows: clear_history then
\* record_rotation
C28_Witness ==
    /\ \E id \in DOMAIN sims :
          /\ sims[id].applied
          /\ audit[id].history = 1
          /\ Len(records) = 1
          /\ records[1].featured_collections # sims[id].selected_collections
    /\ DOMAIN usage # {}
    /\ \A c \in DOMAIN usage : usage[c].times_used = 1

-----------------------------------------------------------------------------
(* SpecFixed: one request at a time under a configuration that is never
   saved again, with a history that is never cleared *)

\* the fixed configuration: one group with min_gap_rotations = 2
FixedConfig == AppConfig(1, <<GroupB>>)

InitFixed ==
    /\ config = FixedConfig
    /\ today \in Dates
    /\ in_history = [max_rotation_id |-> 0, usage_map |-> << >>]
    /\ returned = << >>
    /\ InitService

NextFixed == Calls({"t1"})

SpecFixed == InitFixed /\ [][NextFixed]_vars

\* C26: under a fixed configuration in which every collection belongs to
\* exactly one group with min_gap_rotations = g > 0, after any sequence of
\* run_rotation_once, simulate_rotation_once and apply_simulation calls the
\* history never holds the same collection in two records whose ids differ by
\* less than g.
C26_GapHoldsInHistory ==
    \A i, j \in DOMAIN records :
        \A c \in Collections :
            (/\ i < j
             /\ c \in Range(records[i].featured_collections)
             /\ c \in Range(records[j].featured_collections))
            => j - i >= config.groups[1].min_gap_rotations

====
